---- MODULE Spec2Model ----
(***************************************************************************)
(* Model of src/client.py: MCPClient (connect_to_server, process_query,    *)
(* chat_loop, cleanup) and main.  The Model Gateway (OpenAI chat           *)
(* completions) and the Transport Channel (MCP ClientSession) are external *)
(* collaborators: their answers are nondeterministic choices from small    *)
(* sets, and each of their calls may raise.                                *)
(***************************************************************************)
EXTENDS Integers, Sequences, FiniteSets, TLC

VARIABLES
    pc,              \* position of main / chat_loop / process_query
    client,          \* TRUE once MCPClient() has been constructed in main
    exit_stack,      \* contexts entered on self.exit_stack, in order
    session,         \* self.session: "None", "live" or "closed"
    remoteTools,     \* tool descriptors the remote server currently exposes
    connectTools,    \* descriptors returned by list_tools in connect_to_server
    listToolsCalls,  \* number of session.list_tools() requests issued
    cleanupCalls,    \* number of client.cleanup() invocations
    queriesStarted,  \* number of process_query calls made by chat_loop
    query,           \* argument of the running process_query
    messages,        \* local `messages` of process_query
    openai_tools,    \* local `openai_tools` of process_query
    loop_calls,      \* the list object the for loop iterates over
    idx,             \* 1-based position of the for loop in loop_calls
    assistant_message, \* local `assistant_message` of process_query
    final_text,      \* local `final_text` of process_query
    gwLog,           \* Model Gateway requests of the running query, in order
    callLog,         \* session.call_tool requests of the running query
    resultLog,       \* results session.call_tool returned to the running query
    firstResponse,   \* first Model Gateway response of the running query
    followContents,  \* content of each follow-up response of the running query
    outcome,         \* how the last finished query ended
    gatewayFailed,   \* TRUE once a query of this run failed in the Model Gateway
    returned,        \* value returned by the last process_query
    remoteAtList,    \* descriptors the server exposed when the query listed
    exc,             \* exception propagating out of main's try body
    mainResult       \* how main ended

vars == <<pc, client, exit_stack, session, remoteTools, connectTools,
          listToolsCalls, cleanupCalls, queriesStarted, query, messages,
          openai_tools, loop_calls, idx, assistant_message, final_text,
          gwLog, callLog, resultLog, firstResponse, followContents, outcome,
          gatewayFailed, returned, remoteAtList, exc, mainResult>>

----------------------------------------------------------------------------
(* Bounds *)

MaxQueries == 2      \* queries entered at the prompt in one run
MaxCalls == 2        \* tool calls in one first model response

----------------------------------------------------------------------------
(* Values *)

None == "None"

\* inputSchema objects and tool descriptors served by the remote server
SchemaState == "{state:string}"
SchemaLatLon == "{latitude:number,longitude:number}"

ToolAlerts == [name |-> "get_alerts", description |-> "Get weather alerts",
               inputSchema |-> SchemaState]
ToolForecast == [name |-> "get_forecast", description |-> "Get forecast",
                 inputSchema |-> SchemaLatLon]

RemoteToolSets == { <<ToolAlerts, ToolForecast>>, <<ToolForecast>> }

\* raw `arguments` strings the model may produce
RawCA == "{\"state\": \"CA\"}"
RawNY == "{\"state\": \"NY\"}"
RawBad == "{\"state\": "
RawArgs == {RawCA, RawNY, RawBad}

\* json.loads raises JSONDecodeError on text that is not well-formed JSON
ParseError == [raised |-> "JSONDecodeError"]

json_loads(s) ==
    CASE s = RawCA -> [state |-> "CA"]
      [] s = RawNY -> [state |-> "NY"]
      [] OTHER -> ParseError

ParseFails(s) == "raised" \in DOMAIN json_loads(s)

\* tool calls a first model response may carry
CallA == [id |-> "call_a", name |-> "get_alerts", arguments |-> RawCA]
CallB == [id |-> "call_b", name |-> "get_forecast", arguments |-> RawBad]
CallC == [id |-> "call_c", name |-> "no_such_tool", arguments |-> RawNY]
CallD == [id |-> "call_d", name |-> "get_forecast", arguments |-> RawNY]
CallPool == {CallA, CallB, CallC, CallD}

\* a tool call a follow-up response may carry
CallE == [id |-> "call_e", name |-> "get_alerts", arguments |-> RawNY]

Injective(s) == \A i, j \in 1..Len(s) : s[i] = s[j] => i = j

SeqsUpTo(S, n) == UNION { [1..k -> S] : k \in 0..n }

FirstCallSeqs == { s \in SeqsUpTo(CallPool, MaxCalls) : Injective(s) }

\* content of a first response: text, or None when the model only calls tools
Texts == {None, "It is sunny."}
FollowTexts == {"", "No alerts.", "Anything else?"}

FirstResponses == [content : Texts, tool_calls : FirstCallSeqs]
FollowResponses == [content : FollowTexts, tool_calls : {<<>>, <<CallE>>}]

\* results of session.call_tool
ResultOk == [content |-> "No active alerts for this state.", isError |-> FALSE]
ResultErr == [content |-> "Error executing tool", isError |-> TRUE]
ResultUnknown == [content |-> "Unknown tool", isError |-> TRUE]

ToolNames(ts) == { ts[i].name : i \in 1..Len(ts) }

ToolResults(name, remote) ==
    IF name \in ToolNames(remote) THEN {ResultOk, ResultErr}
    ELSE {ResultUnknown}

\* lines typed at the prompt
RawInputs == {"quit", " QUIT ", " alerts for CA? "}

strip(s) ==
    CASE s = " QUIT " -> "QUIT"
      [] s = " alerts for CA? " -> "alerts for CA?"
      [] OTHER -> s

lower(s) ==
    CASE s = "QUIT" -> "quit"
      [] OTHER -> s

----------------------------------------------------------------------------
(* Pure helpers of process_query *)

\* lines 118-126: one function schema per tool, in order
toModelSchema(tool) ==
    [type |-> "function",
     function |-> [name |-> tool.name,
                   description |-> tool.description,
                   parameters |-> tool.inputSchema]]

\* variant: the schemas are built in reverse order
ToOpenAIToolsReversed(ts) ==
    [i \in 1..Len(ts) |-> toModelSchema(ts[Len(ts) + 1 - i])]

\* lines 115-126: the loop appends one schema per tool, in list order
ToOpenAITools(ts) == [i \in 1..Len(ts) |-> toModelSchema(ts[i])]

\* variant: the argument string is not carried over
AssistantCallMessageNoArgs(tc) ==
    [role |-> "assistant", content |-> None,
     tool_calls |-> << [id |-> tc.id, type |-> "function",
                        function |-> [name |-> tc.name,
                                      arguments |-> "{}"]] >>]

\* lines 158-169
AssistantCallMessage(tc) ==
    [role |-> "assistant", content |-> None,
     tool_calls |-> << [id |-> tc.id, type |-> "function",
                        function |-> [name |-> tc.name,
                                      arguments |-> tc.arguments]] >>]

\* lines 170-175
ToolMessage(tc, result) ==
    [role |-> "tool", tool_call_id |-> tc.id, name |-> tc.name,
     content |-> result.content]

\* variant: the tool-result message is not appended
AppendCallOnly(msgs, tc, result) ==
    Append(msgs, AssistantCallMessage(tc))

\* lines 158-175
AppendCallAndResult(msgs, tc, result) ==
    Append(Append(msgs, AssistantCallMessage(tc)), ToolMessage(tc, result))

\* variant: the new query is appended to the buffer of the previous one
KeepHistory(old, q) == Append(old, [role |-> "user", content |-> q])

\* lines 106-109: the buffer a query starts with
SeedMessages(old, q) == << [role |-> "user", content |-> q] >>

\* Python truthiness of message.content (None and "" are falsy)
Truthy(c) == c # None /\ c # ""

\* variant: the content is captured whether or not it is truthy
CaptureAlways(ft, msg) == Append(ft, msg.content)

\* lines 184-185, 188-189
CaptureText(ft, msg) == IF Truthy(msg.content) THEN Append(ft, msg.content) ELSE ft

\* variant: a first response's text is captured before its tool calls run
CapturesFirstText(ft, msg) == CaptureText(ft, msg)

\* lines 139-143: the tool branch captures nothing of the first response
TextBeforeDispatch(ft, msg) == ft

RECURSIVE JoinNoSeparator(_)
\* variant: the fragments are concatenated without a separator
JoinNoSeparator(ft) ==
    IF Len(ft) = 0 THEN ""
    ELSE ft[1] \o JoinNoSeparator(Tail(ft))

RECURSIVE Join(_)
\* line 192: "\n".join(final_text)
Join(ft) ==
    IF Len(ft) = 0 THEN ""
    ELSE IF Len(ft) = 1 THEN ft[1]
    ELSE ft[1] \o "\n" \o Join(Tail(ft))

----------------------------------------------------------------------------
Init ==
    /\ pc = "main"
    /\ client = FALSE
    /\ exit_stack = <<>>
    /\ session = "None"
    /\ remoteTools \in RemoteToolSets
    /\ connectTools = <<>>
    /\ listToolsCalls = 0
    /\ cleanupCalls = 0
    /\ queriesStarted = 0
    /\ query = ""
    /\ messages = <<>>
    /\ openai_tools = <<>>
    /\ loop_calls = <<>>
    /\ idx = 0
    /\ assistant_message = [content |-> None, tool_calls |-> <<>>]
    /\ final_text = <<>>
    /\ gwLog = <<>>
    /\ callLog = <<>>
    /\ resultLog = <<>>
    /\ firstResponse = [content |-> None, tool_calls |-> <<>>]
    /\ followContents = <<>>
    /\ outcome = "none"
    /\ gatewayFailed = FALSE
    /\ returned = ""
    /\ remoteAtList = <<>>
    /\ exc = "none"
    /\ mainResult = "running"

----------------------------------------------------------------------------
(* main and connect_to_server *)

ServerPaths == {"weather.py", "server.js", "server.sh"}

endswith_py_or_js(path) == path \in {"weather.py", "server.js"}

\* lines 245-248: no server script on the command line
MainUsage ==
    /\ pc = "main"
    /\ pc' = "exited"
    /\ mainResult' = "usage_exit"
    /\ UNCHANGED <<client, exit_stack, session, remoteTools, connectTools,
                   listToolsCalls, cleanupCalls, queriesStarted, query,
                   messages, openai_tools, loop_calls, idx, assistant_message,
                   final_text, gwLog, callLog, resultLog, firstResponse, followContents, outcome,
                   gatewayFailed, returned, remoteAtList, exc>>

\* line 251: client = MCPClient(), then the try body is entered
MainCreate ==
    /\ pc = "main"
    /\ client' = TRUE
    /\ pc' = "connect"
    /\ UNCHANGED <<exit_stack, session, remoteTools, connectTools,
                   listToolsCalls, cleanupCalls, queriesStarted, query,
                   messages, openai_tools, loop_calls, idx, assistant_message,
                   final_text, gwLog, callLog, resultLog, firstResponse, followContents, outcome,
                   gatewayFailed, returned, remoteAtList, exc, mainResult>>

\* how far connect_to_server gets before an awaited call raises
ConnectStages == {"stdio", "session", "initialize", "list_tools", "done"}

\* variant: an exception of the try body is swallowed and the prompt is shown
SwallowsError == "prompt"

\* variant: an exception leaves main without running the finally clause
SkipsFinally == "exited"

\* main, lines 252-258: where control goes when the try body raises
AfterTryBodyRaises == "finally"

\* main, lines 252-258: where control goes when chat_loop returns
AfterChatLoopReturns == "finally"

\* lines 45-87 called from line 254
ConnectToServer ==
    /\ pc = "connect"
    /\ \E path \in ServerPaths, stage \in ConnectStages :
        IF ~endswith_py_or_js(path)
        THEN /\ exc' = "ValueError"
             /\ pc' = AfterTryBodyRaises
             /\ UNCHANGED <<exit_stack, session, connectTools, listToolsCalls>>
        ELSE /\ exit_stack' =
                  CASE stage = "stdio" -> <<>>
                    [] stage = "session" -> <<"stdio_client">>
                    [] OTHER -> <<"stdio_client", "ClientSession">>
             /\ session' = IF stage \in {"stdio", "session"} THEN "None" ELSE "live"
             /\ listToolsCalls' =
                  IF stage \in {"list_tools", "done"} THEN listToolsCalls + 1
                  ELSE listToolsCalls
             /\ IF stage = "done"
                THEN /\ connectTools' = remoteTools
                     /\ pc' = "prompt"
                     /\ exc' = exc
                ELSE /\ connectTools' = connectTools
                     /\ pc' = AfterTryBodyRaises
                     /\ exc' = "TransportError"
    /\ UNCHANGED <<client, remoteTools, cleanupCalls, queriesStarted, query,
                   messages, openai_tools, loop_calls, idx, assistant_message,
                   final_text, gwLog, callLog, resultLog, firstResponse, followContents, outcome,
                   gatewayFailed, returned, remoteAtList, mainResult>>

\* lines 222-228 called from the finally clause, line 258
Cleanup ==
    /\ pc = "finally"
    /\ cleanupCalls' = cleanupCalls + 1
    /\ exit_stack' = <<>>
    /\ session' = IF session = "live" THEN "closed" ELSE session
    /\ pc' = "exited"
    /\ mainResult' = CASE exc = "none" -> "ok"
                       [] exc \in {"ValueError", "TransportError"} -> "startup_failure"
                       [] OTHER -> "chat_loop_exception"
    /\ UNCHANGED <<client, remoteTools, connectTools, listToolsCalls,
                   queriesStarted, query, messages, openai_tools, loop_calls,
                   idx, assistant_message, final_text, gwLog, callLog, resultLog,
                   firstResponse, followContents, outcome, gatewayFailed, returned,
                   remoteAtList, exc>>

\* the remote server changes the tool set it exposes between two queries
RemoteToolsChange ==
    /\ pc = "prompt"
    /\ session = "live"
    /\ remoteTools' \in RemoteToolSets \ {remoteTools}
    /\ UNCHANGED <<pc, client, exit_stack, session, connectTools,
                   listToolsCalls, cleanupCalls, queriesStarted, query,
                   messages, openai_tools, loop_calls, idx, assistant_message,
                   final_text, gwLog, callLog, resultLog, firstResponse, followContents, outcome,
                   gatewayFailed, returned, remoteAtList, exc, mainResult>>

----------------------------------------------------------------------------
(* chat_loop *)

\* variant: Model Gateway errors are not caught
CatchesAllButGateway(kind) ==
    kind \in {"ListToolsError", "JSONDecodeError", "ToolTransportError"}

\* line 218: `except Exception` catches every error process_query raises
ChatLoopCatches(kind) ==
    kind \in {"ListToolsError", "ModelGatewayError", "JSONDecodeError",
              "ToolTransportError"}

\* lines 210-212: input is "quit" in any letter case
InputQuit ==
    /\ pc = "prompt"
    /\ \E raw \in RawInputs : lower(strip(raw)) = "quit"
    /\ pc' = AfterChatLoopReturns
    /\ UNCHANGED <<client, exit_stack, session, remoteTools, connectTools,
                   listToolsCalls, cleanupCalls, queriesStarted, query,
                   messages, openai_tools, loop_calls, idx, assistant_message,
                   final_text, gwLog, callLog, resultLog, firstResponse, followContents, outcome,
                   gatewayFailed, returned, remoteAtList, exc, mainResult>>

\* line 210: input() itself raises (EOF, interrupt), outside the try of line 214
InputRaises ==
    /\ pc = "prompt"
    /\ exc' = "EOFError"
    /\ pc' = AfterTryBodyRaises
    /\ UNCHANGED <<client, exit_stack, session, remoteTools, connectTools,
                   listToolsCalls, cleanupCalls, queriesStarted, query,
                   messages, openai_tools, loop_calls, idx, assistant_message,
                   final_text, gwLog, callLog, resultLog, firstResponse, followContents, outcome,
                   gatewayFailed, returned, remoteAtList, mainResult>>

\* lines 210-216 and 106-109: a query is entered and process_query starts
InputQuery ==
    /\ pc = "prompt"
    /\ queriesStarted < MaxQueries
    /\ \E raw \in RawInputs :
        /\ lower(strip(raw)) # "quit"
        /\ query' = strip(raw)
        /\ messages' = SeedMessages(messages, strip(raw))
    /\ queriesStarted' = queriesStarted + 1
    /\ outcome' = "running"
    /\ openai_tools' = <<>>
    /\ loop_calls' = <<>>
    /\ idx' = 0
    /\ assistant_message' = [content |-> None, tool_calls |-> <<>>]
    /\ firstResponse' = [content |-> None, tool_calls |-> <<>>]
    /\ followContents' = <<>>
    /\ final_text' = <<>>
    /\ gwLog' = <<>>
    /\ callLog' = <<>>
    /\ resultLog' = <<>>
    /\ returned' = ""
    /\ remoteAtList' = <<>>
    /\ pc' = "list_tools"
    /\ UNCHANGED <<client, exit_stack, session, remoteTools, connectTools,
                   listToolsCalls, cleanupCalls, gatewayFailed, exc,
                   mainResult>>

\* process_query raises `kind`: lines 214-220, else out of chat_loop to main
Raise(kind) ==
    /\ outcome' = kind
    /\ gatewayFailed' = (gatewayFailed \/ kind = "ModelGatewayError")
    /\ returned' = returned
    /\ IF ChatLoopCatches(kind)
       THEN pc' = "prompt" /\ exc' = exc
       ELSE pc' = AfterTryBodyRaises /\ exc' = kind

\* line 192 and lines 216-217: process_query returns, chat_loop prints
Return(ft) ==
    /\ outcome' = "ok"
    /\ gatewayFailed' = gatewayFailed
    /\ returned' = Join(ft)
    /\ pc' = "prompt"
    /\ exc' = exc

----------------------------------------------------------------------------
(* process_query *)

\* variant: the query works with the set listed at connect time
FetchCached(remote, atConnect) == atConnect

\* line 113: the descriptor set the query works with
FetchTools(remote, atConnect) == remote

\* variant: a tool call is refused when its tool is not among the listed ones
PrecheckWithLookup(tc, listed) ==
    ParseFails(tc.arguments) \/ tc.name \notin ToolNames(listed)

\* lines 145-150: all that precedes call_tool is json.loads of the arguments;
\* the tool name is not looked up in the listed tools
DispatchPrecheckFails(tc, listed) == ParseFails(tc.arguments)

\* variant: the loop takes the tool call of the latest response
CallOfLatestResponse(calls, msg, i) ==
    IF msg.tool_calls # <<>> THEN msg.tool_calls[1] ELSE calls[i]

\* lines 143-146: the loop variable is the i-th element of the iterated list
CurrentCall(calls, msg, i) == calls[i]

\* variant: tool calls of a follow-up response are queued for dispatch
QueuesFollowupCalls(calls, r) == calls \o r.tool_calls

\* lines 143 and 183: the loop iterates the list it was entered with;
\* rebinding assistant_message does not change it
CallsAfterFollowup(calls, r) == calls

\* variant: the loop stops after its first iteration
LoopStopsAfterFirst(i, calls) == FALSE

\* line 143: the for loop has another tool call after position i
LoopHasNext(i, calls) == i < Len(calls)

\* lines 111-126
PQListTools ==
    /\ pc = "list_tools"
    /\ listToolsCalls' = listToolsCalls + 1
    /\ \E ok \in BOOLEAN :
        IF ok
        THEN /\ remoteAtList' = remoteTools
             /\ openai_tools' = ToOpenAITools(FetchTools(remoteTools, connectTools))
             /\ pc' = "gateway"
             /\ UNCHANGED <<outcome, gatewayFailed, returned, exc>>
        ELSE /\ Raise("ListToolsError")
             /\ UNCHANGED <<remoteAtList, openai_tools>>
    /\ UNCHANGED <<client, exit_stack, session, remoteTools, connectTools,
                   cleanupCalls, queriesStarted, query, messages, loop_calls,
                   idx, assistant_message, final_text, gwLog, callLog, resultLog,
                   firstResponse, followContents, mainResult>>

\* lines 128-142 and 186-192
PQFirstGateway ==
    /\ pc = "gateway"
    /\ gwLog' = Append(gwLog, [messages |-> messages, has_tools |-> TRUE,
                               tools |-> openai_tools])
    /\ \/ /\ Raise("ModelGatewayError")
          /\ UNCHANGED <<assistant_message, firstResponse, final_text,
                         loop_calls, idx>>
       \/ \E r \in FirstResponses :
            /\ assistant_message' = r
            /\ firstResponse' = r
            /\ IF r.tool_calls # <<>>
               THEN /\ loop_calls' = r.tool_calls
                    /\ idx' = 1
                    /\ final_text' = TextBeforeDispatch(<<>>, r)
                    /\ pc' = "dispatch"
                    /\ UNCHANGED <<outcome, gatewayFailed, returned, exc>>
               ELSE /\ final_text' = CaptureText(<<>>, r)
                    /\ Return(final_text')
                    /\ UNCHANGED <<loop_calls, idx>>
    /\ UNCHANGED <<client, exit_stack, session, remoteTools, connectTools,
                   listToolsCalls, cleanupCalls, queriesStarted, query,
                   messages, openai_tools, callLog, resultLog, followContents,
                   remoteAtList,
                   mainResult>>

\* lines 143-175: one iteration of the for loop up to the appends
PQDispatch ==
    /\ pc = "dispatch"
    /\ LET tc == CurrentCall(loop_calls, assistant_message, idx) IN
        IF DispatchPrecheckFails(tc, remoteAtList)
        THEN /\ Raise("JSONDecodeError")
             /\ UNCHANGED <<callLog, resultLog, messages>>
        ELSE /\ callLog' = Append(callLog,
                    [call_id |-> tc.id, name |-> tc.name,
                     arguments |-> json_loads(tc.arguments)])
             /\ \/ /\ Raise("ToolTransportError")
                   /\ UNCHANGED <<messages, resultLog>>
                \/ \E result \in ToolResults(tc.name, remoteTools) :
                     /\ resultLog' = Append(resultLog,
                            [call_id |-> tc.id, isError |-> result.isError])
                     /\ messages' = AppendCallAndResult(messages, tc, result)
                     /\ pc' = "followup"
                     /\ UNCHANGED <<outcome, gatewayFailed, returned, exc>>
    /\ UNCHANGED <<client, exit_stack, session, remoteTools, connectTools,
                   listToolsCalls, cleanupCalls, queriesStarted, query,
                   openai_tools, loop_calls, idx, assistant_message,
                   final_text, gwLog, firstResponse, followContents,
                   remoteAtList, mainResult>>

\* lines 177-185, then the next iteration or line 192
PQFollowup ==
    /\ pc = "followup"
    /\ gwLog' = Append(gwLog, [messages |-> messages, has_tools |-> FALSE,
                               tools |-> <<>>])
    /\ \/ /\ Raise("ModelGatewayError")
          /\ UNCHANGED <<assistant_message, final_text, idx, loop_calls,
                         followContents>>
       \/ \E r \in FollowResponses :
            /\ assistant_message' = r
            /\ followContents' = Append(followContents, r.content)
            /\ loop_calls' = CallsAfterFollowup(loop_calls, r)
            /\ final_text' = CaptureText(final_text, r)
            /\ IF LoopHasNext(idx, loop_calls')
               THEN /\ idx' = idx + 1
                    /\ pc' = "dispatch"
                    /\ UNCHANGED <<outcome, gatewayFailed, returned, exc>>
               ELSE /\ idx' = idx
                    /\ Return(final_text')
    /\ UNCHANGED <<client, exit_stack, session, remoteTools, connectTools,
                   listToolsCalls, cleanupCalls, queriesStarted, query,
                   messages, openai_tools, callLog, resultLog, firstResponse,
                   remoteAtList, mainResult>>

----------------------------------------------------------------------------
Next ==
    \/ MainUsage
    \/ MainCreate
    \/ ConnectToServer
    \/ InputQuit
    \/ InputRaises
    \/ InputQuery
    \/ PQListTools
    \/ PQFirstGateway
    \/ PQDispatch
    \/ PQFollowup
    \/ RemoteToolsChange
    \/ Cleanup

Spec == Init /\ [][Next]_vars

\* every awaited call of process_query eventually returns or raises
LiveSpec ==
    /\ Init /\ [][Next]_vars
    /\ WF_vars(PQListTools)
    /\ WF_vars(PQFirstGateway)
    /\ WF_vars(PQDispatch)
    /\ WF_vars(PQFollowup)

----------------------------------------------------------------------------
(* Properties *)

QueryEnded == outcome \notin {"none", "running"}
QueryReturned == outcome = "ok"
NumFirstCalls == Len(firstResponse.tool_calls)
FirstCallIds == [i \in 1..NumFirstCalls |-> firstResponse.tool_calls[i].id]

IsToolResult(m) == m.role = "tool"
IsCallRequest(m) == m.role = "assistant" /\ "tool_calls" \in DOMAIN m

ToolResultIds(ms) ==
    LET rs == SelectSeq(ms, IsToolResult)
    IN [i \in 1..Len(rs) |-> rs[i].tool_call_id]

DispatchedIds == [i \in 1..Len(callLog) |-> callLog[i].call_id]

\* every tool call request in ms is followed in ms by a result with its call_id
RequestsAnswered(ms) ==
    \A i \in 1..Len(ms) :
        IsCallRequest(ms[i]) =>
            \A c \in 1..Len(ms[i].tool_calls) :
                \E j \in (i+1)..Len(ms) :
                    /\ IsToolResult(ms[j])
                    /\ ms[j].tool_call_id = ms[i].tool_calls[c].id

\* C1: every Model Gateway call after the first one is sent a buffer in which
\* each tool call request is followed by a tool-result message carrying the
\* same call_id.
C1_RequestsAnsweredBeforeGateway ==
    \A k \in 2..Len(gwLog) : RequestsAnswered(gwLog[k].messages)

\* a second follow-up call was issued with two answered requests in the buffer
C1_Witness ==
    /\ Len(gwLog) >= 3
    /\ Len(SelectSeq(gwLog[3].messages, IsCallRequest)) = 2
    /\ Len(SelectSeq(gwLog[3].messages, IsToolResult)) = 2

\* C2: once a query whose first response has N >= 1 tool calls has ended, the
\* N calls were dispatched in provider order and exactly N tool-result
\* messages were appended, the i-th with the call_id of the i-th request.
C2_AllResultsInOrder ==
    (QueryEnded /\ NumFirstCalls >= 1) =>
        /\ DispatchedIds = FirstCallIds
        /\ ToolResultIds(messages) = FirstCallIds

HasResult(ms, id) ==
    \E j \in 1..Len(ms) : IsToolResult(ms[j]) /\ ms[j].tool_call_id = id

IsErrorFlagged(m) == "is_error" \in DOMAIN m /\ m.is_error

HasErrorResultFor(ms, id) ==
    \E j \in 1..Len(ms) :
        IsToolResult(ms[j]) /\ ms[j].tool_call_id = id /\ IsErrorFlagged(ms[j])

\* C4: a tool call whose arguments fail to parse does not abort the query: an
\* error-flagged tool-result message is appended for its call_id and the
\* remaining tool calls of the round are still dispatched.
C4_ParseFailureAbsorbed ==
    /\ outcome # "JSONDecodeError"
    /\ QueryEnded =>
          \A i \in 1..NumFirstCalls :
              IF ParseFails(firstResponse.tool_calls[i].arguments)
              THEN HasErrorResultFor(messages, FirstCallIds[i])
              ELSE \E k \in 1..Len(callLog) : callLog[k].call_id = FirstCallIds[i]

\* C5: a tool call for which the remote tool reports a failure still gets a
\* tool-result message marked is_error=true, and the remaining tool calls of
\* the round are still dispatched.
C5_ToolFailureFlagged ==
    /\ \A k \in 1..Len(resultLog) :
          resultLog[k].isError =>
              HasErrorResultFor(messages, resultLog[k].call_id)
    /\ (QueryEnded /\ \E k \in 1..Len(resultLog) : resultLog[k].isError) =>
          DispatchedIds = FirstCallIds

\* C6: a transport error raised by call_tool aborts only that tool call: the
\* query does not fail, and the call gets an error-flagged tool result.
C6_TransportErrorAbsorbed ==
    /\ outcome # "ToolTransportError"
    /\ \A k \in 1..Len(callLog) :
          k > Len(resultLog) => HasErrorResultFor(messages, callLog[k].call_id)

QueryPcs == {"list_tools", "gateway", "dispatch", "followup"}

\* C7: a Model Gateway failure, like every other error raised while a query
\* is processed, ends only that query: control is back at the prompt, nothing
\* propagates to main, the session and its exit stack are untouched and
\* cleanup has not run; and every query starts from a buffer holding only its
\* own user message, which is what its first Model Gateway call is sent.
C7_GatewayFailureAbortsOnlyQuery ==
    [][ /\ (outcome = "running" /\ outcome' \notin {"running", "ok"}) =>
              /\ pc' = "prompt"
              /\ exc' = "none"
              /\ session = "live" /\ session' = "live"
              /\ exit_stack' = exit_stack
              /\ cleanupCalls' = 0
        /\ (pc = "prompt" /\ pc' \in QueryPcs) =>
              /\ messages' = << [role |-> "user", content |-> query'] >>
              /\ gwLog' = <<>>
        /\ Len(gwLog') >= 1 =>
              gwLog'[1].messages = << [role |-> "user", content |-> query'] >>
      ]_vars

\* after a query failed in the Model Gateway, the next query used a tool and
\* returned
C7_Witness ==
    /\ gatewayFailed
    /\ outcome = "ok"
    /\ queriesStarted >= 2
    /\ Len(resultLog) >= 1
    /\ session = "live"

\* C8: cleanup runs at most once, a run that created a client has run it
\* exactly once when main is left, and once it has run main is over, so no
\* query is processed after it.
C8_CleanupExactlyOnce ==
    /\ cleanupCalls <= 1
    /\ (pc = "exited" /\ client) => cleanupCalls = 1
    /\ cleanupCalls >= 1 => pc = "exited"
    /\ pc \in QueryPcs => cleanupCalls = 0

\* main was left through an exception out of chat_loop, after a query
C8_Witness ==
    /\ pc = "exited"
    /\ mainResult = "chat_loop_exception"
    /\ queriesStarted >= 1
    /\ cleanupCalls = 1

\* C9: once a query has ended, call_tool was invoked exactly once for each
\* tool call request of its first model response.
C9_EachCallDispatchedOnce ==
    QueryEnded =>
        \A i \in 1..NumFirstCalls :
            Cardinality({ k \in 1..Len(callLog) :
                            callLog[k].call_id = FirstCallIds[i] }) = 1

C11_OnlyFirstResponseCallsDispatched ==
    \A k \in 1..Len(callLog) :
        \E i \in 1..NumFirstCalls :
            /\ callLog[k].call_id = FirstCallIds[i]
            /\ callLog[k].name = firstResponse.tool_calls[i].name

\* the first follow-up response asked for call_e and the loop then dispatched
\* the second tool call of the first response
C11_Witness ==
    /\ pc = "followup"
    /\ idx = 2
    /\ assistant_message.tool_calls = <<CallE>>
    /\ Len(callLog) = 2

AssistantMessages(ms) == SelectSeq(ms, IsCallRequest)

\* the tool call entry an assistant message carries for request tc
CarriesVerbatim(entry, tc) ==
    /\ entry.id = tc.id
    /\ entry.function.name = tc.name
    /\ entry.function.arguments = tc.arguments

\* C12 as stated: once a result has been appended, the buffer holds exactly
\* one assistant message, carrying all N tool calls of the round in order.
C12_OneAssistantMessagePerRound ==
    Len(resultLog) >= 1 =>
        LET as == AssistantMessages(messages) IN
        /\ Len(as) = 1
        /\ Len(as[1].tool_calls) = NumFirstCalls
        /\ \A i \in 1..NumFirstCalls :
              CarriesVerbatim(as[1].tool_calls[i], firstResponse.tool_calls[i])

\* C12 amended: one assistant message is appended per tool call that returned
\* a result; the k-th one carries exactly the k-th tool call of the first
\* response, with call_id, tool name and raw argument string unchanged, and
\* sits immediately before that call's tool-result message.
C12_OneAssistantMessagePerCall ==
    queriesStarted >= 1 =>
        /\ Len(messages) = 1 + 2 * Len(resultLog)
        /\ \A k \in 1..Len(resultLog) :
              /\ IsCallRequest(messages[2 * k])
              /\ Len(messages[2 * k].tool_calls) = 1
              /\ CarriesVerbatim(messages[2 * k].tool_calls[1],
                                 firstResponse.tool_calls[k])
              /\ IsToolResult(messages[2 * k + 1])
              /\ messages[2 * k + 1].tool_call_id = FirstCallIds[k]

\* two tool calls returned results: two assistant messages are in the buffer
C12_Witness ==
    /\ Len(resultLog) = 2
    /\ Len(AssistantMessages(messages)) = 2
    /\ Len(messages) = 5

\* C13: a query whose first response has no tool calls returns exactly the
\* text of that response (the empty string when it has none), after a single
\* Model Gateway call and no tool dispatch.
C13_NoToolCallsPassthrough ==
    (QueryReturned /\ NumFirstCalls = 0) =>
        /\ returned = (IF firstResponse.content = None THEN ""
                       ELSE firstResponse.content)
        /\ Len(gwLog) = 1
        /\ callLog = <<>>

\* a query without tool calls returned the text of its first response
C13_Witness ==
    /\ QueryReturned
    /\ NumFirstCalls = 0
    /\ firstResponse.content = "It is sunny."
    /\ returned = "It is sunny."

IsPrefix(s, t) == Len(s) <= Len(t) /\ SubSeq(t, 1, Len(s)) = s

IsUserMessage(m) == m.role = "user"

\* C14: a query starts from a buffer holding only its own user message; while
\* it runs the buffer only grows at its end; and every buffer sent to the
\* Model Gateway starts with that user message, holds no other user message
\* and is a prefix of the current buffer.
C14_FreshAppendOnlyBuffer ==
    [][ /\ (pc = "prompt" /\ pc' \in QueryPcs) =>
              messages' = << [role |-> "user", content |-> query'] >>
        /\ pc \in QueryPcs => IsPrefix(messages, messages')
        /\ \A k \in 1..Len(gwLog') :
              /\ IsPrefix(gwLog'[k].messages, messages')
              /\ gwLog'[k].messages[1] = [role |-> "user", content |-> query']
              /\ Len(SelectSeq(gwLog'[k].messages, IsUserMessage)) = 1
      ]_vars

\* a second query is in its tool round after an earlier query failed
C14_Witness ==
    /\ queriesStarted = 2
    /\ gatewayFailed
    /\ pc = "followup"
    /\ Len(messages) = 3
    /\ Len(gwLog) = 1

RECURSIVE NewlineJoinedUpTo(_, _)
\* the first n fragments of fs, separated by single newlines
NewlineJoinedUpTo(fs, n) ==
    IF n = 0 THEN ""
    ELSE IF n = 1 THEN fs[1]
    ELSE NewlineJoinedUpTo(fs, n - 1) \o "\n" \o fs[n]

NewlineJoined(fs) == NewlineJoinedUpTo(fs, Len(fs))

FollowupFragments == SelectSeq(followContents, Truthy)

NotListed(name) == name \notin ToolNames(remoteAtList)

\* C15: a tool call whose arguments parse is sent to call_tool whether or not
\* its tool is among the listed ones; an error result for an unlisted tool
\* takes the query on to the follow-up call instead of ending it; and a query
\* that dispatched an unlisted tool and returned has made one follow-up call
\* per tool call and returns the follow-up text.
C15_UnlistedToolStillDispatched ==
    [][ /\ (pc = "dispatch" /\ ~ParseFails(loop_calls[idx].arguments)) =>
              /\ Len(callLog') = Len(callLog) + 1
              /\ callLog'[Len(callLog')].call_id = loop_calls[idx].id
              /\ callLog'[Len(callLog')].name = loop_calls[idx].name
        /\ (/\ Len(resultLog') = Len(resultLog) + 1
            /\ resultLog'[Len(resultLog')].isError
            /\ NotListed(callLog'[Len(callLog')].name)) =>
              /\ pc' = "followup"
              /\ outcome' = "running"
              /\ HasResult(messages', resultLog'[Len(resultLog')].call_id)
        /\ (/\ outcome' = "ok"
            /\ \E k \in 1..Len(callLog') : NotListed(callLog'[k].name)) =>
              /\ Len(followContents') = Len(firstResponse'.tool_calls)
              /\ returned' = NewlineJoined(SelectSeq(followContents', Truthy))
      ]_vars

\* the only tool call named an unlisted tool, the channel reported an error
\* and the query returned the text of the follow-up call
C15_Witness ==
    /\ QueryReturned
    /\ NumFirstCalls = 1
    /\ callLog[1].name = "no_such_tool"
    /\ NotListed(callLog[1].name)
    /\ resultLog[1].isError
    /\ returned = "No alerts."

\* C16: when the transport fails during connect, connect_to_server raises
\* before any descriptor set is obtained, chat_loop is never entered, no
\* query is processed and the run ends in startup failure after cleanup.
C16_ConnectFailureAbortsStartup ==
    exc = "TransportError" =>
        /\ pc \in {"finally", "exited"}
        /\ connectTools = <<>>
        /\ queriesStarted = 0
        /\ gwLog = <<>> /\ callLog = <<>>
        /\ pc = "exited" => mainResult = "startup_failure"

\* the initial list_tools request failed and the run ended in startup failure
C16_Witness ==
    /\ exc = "TransportError"
    /\ pc = "exited"
    /\ session = "closed"
    /\ listToolsCalls = 1
    /\ mainResult = "startup_failure"
    /\ queriesStarted = 0

\* C17: the first Model Gateway call of a query carries one function schema
\* per listed tool, in list order, with the tool's name, description and
\* input schema unchanged; follow-up calls carry no tool schemas.
C17_SchemasPassedThrough ==
    \A k \in 1..Len(gwLog) :
        IF k = 1
        THEN /\ gwLog[k].has_tools
             /\ Len(gwLog[k].tools) = Len(remoteAtList)
             /\ \A i \in 1..Len(remoteAtList) :
                   /\ gwLog[k].tools[i].type = "function"
                   /\ gwLog[k].tools[i].function.name = remoteAtList[i].name
                   /\ gwLog[k].tools[i].function.description =
                          remoteAtList[i].description
                   /\ gwLog[k].tools[i].function.parameters =
                          remoteAtList[i].inputSchema
        ELSE /\ ~gwLog[k].has_tools
             /\ gwLog[k].tools = <<>>

\* a query listed two tools, sent two schemas and made a follow-up call
C17_Witness ==
    /\ Len(gwLog) >= 2
    /\ Len(remoteAtList) = 2
    /\ Len(gwLog[1].tools) = 2
    /\ gwLog[1].tools[1].function.name = "get_alerts"
    /\ ~gwLog[2].has_tools

\* C18 as stated: the returned value joins, with single newlines and in
\* order, one fragment per response of the query that has non-empty text.
C18_FragmentPerRound ==
    QueryReturned =>
        returned =
            NewlineJoined(SelectSeq(<<firstResponse.content>> \o followContents,
                                    Truthy))

\* C18 amended: the returned value joins the captured fragments with single
\* newlines, in order: the first response's text, if non-empty, when that
\* response has no tool calls, and otherwise one fragment per follow-up
\* response with non-empty text; the text of a first response that carries
\* tool calls is not captured, and responses without text add nothing.
C18_FragmentPerCapturedResponse ==
    QueryReturned =>
        /\ final_text = (IF NumFirstCalls = 0
                         THEN SelectSeq(<<firstResponse.content>>, Truthy)
                         ELSE FollowupFragments)
        /\ returned = NewlineJoined(final_text)

\* two follow-up responses with text were joined by a single newline
C18_Witness ==
    /\ QueryReturned
    /\ NumFirstCalls = 2
    /\ followContents = <<"No alerts.", "Anything else?">>
    /\ returned = "No alerts.\nAnything else?"

\* C19: when the first response has both text and tool calls, that text is in
\* no message of the buffer (the appended assistant messages have no
\* content), is not among the captured fragments, and the returned value is
\* made of follow-up text only.
C19_FirstTextDropped ==
    (NumFirstCalls >= 1 /\ Truthy(firstResponse.content)) =>
        /\ \A j \in 1..Len(messages) :
              /\ messages[j].content # firstResponse.content
              /\ IsCallRequest(messages[j]) => messages[j].content = None
        /\ \A i \in 1..Len(final_text) :
              /\ final_text[i] # firstResponse.content
              /\ \E k \in 1..Len(followContents) :
                    followContents[k] = final_text[i]
        /\ QueryReturned =>
              /\ returned # firstResponse.content
              /\ Len(final_text) = 0 => returned = ""

\* the first response had text and a tool call; only follow-up text came back
C19_Witness ==
    /\ QueryReturned
    /\ NumFirstCalls >= 1
    /\ firstResponse.content = "It is sunny."
    /\ returned = "No alerts."

\* C20: provided its awaited calls return or raise, a running process_query
\* eventually returns or raises, having made at most N call_tool requests
\* and at most 1 + N Model Gateway calls, N being the number of tool calls of
\* the first response, whatever the follow-up responses contain.
C20_QueryTerminatesBounded ==
    /\ [](/\ Len(callLog) <= NumFirstCalls
          /\ Len(gwLog) <= 1 + NumFirstCalls
          /\ idx <= NumFirstCalls)
    /\ (pc \in QueryPcs) ~> (pc \notin QueryPcs)

\* a query returned after two dispatches and three Model Gateway calls
\* although its last follow-up response asked for another tool call
C20_Witness ==
    /\ QueryReturned
    /\ NumFirstCalls = 2
    /\ Len(callLog) = 2
    /\ Len(gwLog) = 3
    /\ assistant_message.tool_calls = <<CallE>>

====
